---- MODULE Spec2Model ----
(***************************************************************************)
(* Model of server/services/store/sqlstore/workspaces.go: the workspace    *)
(* repository of the SQL store (signup tokens, settings, counts and the    *)
(* per-user channel listing), together with the parts of encoding/json and *)
(* of the database engine that its operations rely on.                     *)
(***************************************************************************)
EXTENDS Integers, Sequences, FiniteSets, TLC

(***************************************************************************)
(* Go values held in model.Workspace.Settings (map[string]interface{}).    *)
(* Every value is a record of the same shape; k names the dynamic type.    *)
(* Integers are kept exactly as hi * Base + lo so that values above 2^53   *)
(* can be written down.                                                    *)
(***************************************************************************)
Base == 2^27

NoMembers == [x \in {} |-> 0]

GoNil == [k |-> "nil", b |-> FALSE, s |-> "", hi |-> 0, lo |-> 0, m |-> NoMembers]

GoBool(b) == [k |-> "bool", b |-> b, s |-> "", hi |-> 0, lo |-> 0, m |-> NoMembers]

GoStr(s) == [k |-> "string", b |-> FALSE, s |-> s, hi |-> 0, lo |-> 0, m |-> NoMembers]

GoInt(hi, lo) == [k |-> "int64", b |-> FALSE, s |-> "", hi |-> hi, lo |-> lo, m |-> NoMembers]

GoFloat(hi, lo) == [k |-> "float64", b |-> FALSE, s |-> "", hi |-> hi, lo |-> lo, m |-> NoMembers]

GoMap(m) == [k |-> "map", b |-> FALSE, s |-> "", hi |-> 0, lo |-> 0, m |-> m]

EmptyObject == GoMap(NoMembers)

(* JSON text is a sequence of tokens. *)
Tok(t) == [t |-> t, s |-> "", hi |-> 0, lo |-> 0]

TokStr(s) == [t |-> "str", s |-> s, hi |-> 0, lo |-> 0]

TokNum(hi, lo) == [t |-> "num", s |-> "", hi |-> hi, lo |-> lo]

(* The keys used in settings documents, in the byte order json.Marshal sorts them. *)
KeyOrder == <<"a", "b">>

Keys == {KeyOrder[i] : i \in DOMAIN KeyOrder}

SortedKeys(S) == SelectSeq(KeyOrder, LAMBDA key : key \in S)

(* encoding/json escapes <, > and & inside strings (HTML-safe output). *)
EscapeString(s) == CASE s = "<" -> "\\u003c" [] OTHER -> s

UnescapeString(s) == CASE s = "\\u003c" -> "<" [] OTHER -> s

RECURSIVE Marshal(_)
RECURSIVE MarshalMembers(_, _)
MarshalMembers(m, ks) ==
  IF ks = <<>> THEN <<>>
  ELSE <<TokStr(EscapeString(Head(ks))), Tok(":")>> \o Marshal(m[Head(ks)])
       \o (IF Tail(ks) = <<>> THEN <<>> ELSE <<Tok(",")>> \o MarshalMembers(m, Tail(ks)))

Marshal(v) ==
  CASE v.k = "nil" -> <<Tok("null")>>
    [] v.k = "bool" -> <<Tok(IF v.b THEN "true" ELSE "false")>>
    [] v.k = "string" -> <<TokStr(EscapeString(v.s))>>
    [] v.k \in {"int64", "float64"} -> <<TokNum(v.hi, v.lo)>>
    [] v.k = "map" -> <<Tok("{")>> \o MarshalMembers(v.m, SortedKeys(DOMAIN v.m)) \o <<Tok("}")>>

(***************************************************************************)
(* strconv.ParseFloat as used by json.Unmarshal for a number decoded into  *)
(* interface{}: the nearest float64, ties to even.  Below 2^53 every       *)
(* integer is exact; from 2^53 up to 2^54 only even integers exist.        *)
(***************************************************************************)
ParseFloat(hi, lo) ==
  IF hi < 2^26 \/ lo % 2 = 0 THEN <<hi, lo>>
  ELSE IF ((lo - 1) \div 2) % 2 = 0 THEN <<hi, lo - 1>>
  ELSE IF lo + 1 = Base THEN <<hi + 1, 0>>
  ELSE <<hi, lo + 1>>

ParseFail == [ok |-> FALSE, v |-> GoNil, n |-> 0]

ParseOk(v, n) == [ok |-> TRUE, v |-> v, n |-> n]

RECURSIVE ParseValue(_, _)
RECURSIVE ParseMembers(_, _, _)
ParseMembers(toks, i, acc) ==
  IF i + 2 > Len(toks) \/ toks[i].t # "str" \/ toks[i + 1].t # ":" THEN ParseFail
  ELSE LET key == UnescapeString(toks[i].s)
           r == ParseValue(toks, i + 2)
           acc2 == [x \in DOMAIN acc \cup {key} |-> IF x = key THEN r.v ELSE acc[x]]
       IN IF ~r.ok \/ r.n > Len(toks) THEN ParseFail
          ELSE IF toks[r.n].t = "," THEN ParseMembers(toks, r.n + 1, acc2)
          ELSE IF toks[r.n].t = "}" THEN ParseOk(GoMap(acc2), r.n + 1)
          ELSE ParseFail

ParseValue(toks, i) ==
  IF i > Len(toks) THEN ParseFail
  ELSE LET t == toks[i] IN
    CASE t.t = "null" -> ParseOk(GoNil, i + 1)
      [] t.t = "true" -> ParseOk(GoBool(TRUE), i + 1)
      [] t.t = "false" -> ParseOk(GoBool(FALSE), i + 1)
      [] t.t = "str" -> ParseOk(GoStr(UnescapeString(t.s)), i + 1)
      [] t.t = "num" -> LET f == ParseFloat(t.hi, t.lo) IN ParseOk(GoFloat(f[1], f[2]), i + 1)
      [] t.t = "{" -> IF i + 1 <= Len(toks) /\ toks[i + 1].t = "}"
                      THEN ParseOk(EmptyObject, i + 2)
                      ELSE ParseMembers(toks, i + 1, NoMembers)
      [] OTHER -> ParseFail

(* json.Unmarshal(text, &workspace.Settings): the target is a nil map. *)
Unmarshal(text) ==
  LET r == ParseValue(text, 1) IN
    IF ~r.ok \/ r.n # Len(text) + 1 THEN [err |-> "json: invalid character", v |-> GoNil]
    ELSE IF r.v.k \notin {"nil", "map"} THEN [err |-> "json: cannot unmarshal into Go value of type map[string]interface {}", v |-> GoNil]
    ELSE [err |-> "nil", v |-> r.v]

(* The JSON document a Go value stands for: numbers by value, whatever their Go type. *)
RECURSIVE Denote(_)
Denote(v) ==
  CASE v.k \in {"int64", "float64"} -> [v EXCEPT !.k = "number"]
    [] v.k = "map" -> [v EXCEPT !.m = [x \in DOMAIN v.m |-> Denote(v.m[x])]]
    [] OTHER -> v

(***************************************************************************)
(* Bounds and input sets.                                                  *)
(***************************************************************************)
MaxTime == 1

NProcs == 2

MaxBlocks == 3

Procs == 1 .. NProcs

Ids == {"w1", "w2"}

Tokens == {"t1", "t2"}

Modifiers == {"u1", "u2"}

GUIDs == {"g1"}

Users == {"u1", "u2"}

(* The dialect discriminators of the store (sqlite3 is the one outside MySQL and PostgreSQL). *)
mysqlDBType == "mysql"

postgresDBType == "postgres"

sqliteDBType == "sqlite3"

DBTypes == {mysqlDBType, postgresDBType, sqliteDBType}

errUnsupportedDatabaseError == "method is unsupported on current database. Supported databases are - MySQL and PostgreSQL"

ErrNoRows == "sql: no rows in result set"

ErrSyntax == "You have an error in your SQL syntax"

ErrDuplicateKey == "duplicate key value violates unique constraint"

(* model.Workspace *)
Workspace(id, token, settings, modifiedBy, updateAt) ==
  [ID |-> id, SignupToken |-> token, Settings |-> settings, ModifiedBy |-> modifiedBy, UpdateAt |-> updateAt]

ZeroWorkspace == Workspace("", "", GoNil, "", 0)

(* A column value of the settings column: SQL NULL or a JSON text. *)
SQLNull == [null |-> TRUE, text |-> <<>>]

SQLText(text) == [null |-> FALSE, text |-> text]

Row(id, token, settings, modifiedBy, updateAt) ==
  [id |-> id, signup_token |-> token, settings |-> settings, modified_by |-> modifiedBy, update_at |-> updateAt]

(* Channels(Id, DisplayName), read only. *)
Channels == {[Id |-> "c1", DisplayName |-> "Town Square"], [Id |-> "c2", DisplayName |-> "Off-Topic"]}

ChannelIds == {c.Id : c \in Channels}

VARIABLES dbType, clock, workspaces, ChannelMembers, focalboard_blocks, ret, pc, args, rets

vars == <<dbType, clock, workspaces, ChannelMembers, focalboard_blocks, ret, pc, args, rets>>

(***************************************************************************)
(* The database engine: one INSERT with a conflict clause is one atomic    *)
(* statement.  A query is the row of VALUES, the suffix chosen by the      *)
(* dialect branch and the columns the suffix assigns.                      *)
(***************************************************************************)
OnDuplicateKey == "ON DUPLICATE KEY UPDATE"

OnConflict == "ON CONFLICT (id) DO UPDATE SET"

EngineAccepts(db, suffix) ==
  \/ suffix = ""
  \/ db = mysqlDBType /\ suffix = OnDuplicateKey
  \/ db # mysqlDBType /\ suffix = OnConflict

ApplySet(r, q) ==
  Row(r.id,
      IF "signup_token" \in q.set THEN q.row.signup_token ELSE r.signup_token,
      IF "settings" \in q.set THEN q.row.settings ELSE r.settings,
      IF "modified_by" \in q.set THEN q.row.modified_by ELSE r.modified_by,
      IF "update_at" \in q.set THEN q.row.update_at ELSE r.update_at)

Exec(db, table, q) ==
  LET conflict == {r \in table : r.id = q.row.id} IN
    IF ~EngineAccepts(db, q.suffix) THEN [table |-> table, err |-> ErrSyntax]
    ELSE IF conflict = {} THEN [table |-> table \cup {q.row}, err |-> "nil"]
    ELSE IF q.suffix = "" THEN [table |-> table, err |-> ErrDuplicateKey]
    ELSE [table |-> (table \ conflict) \cup {ApplySet(r, q) : r \in conflict}, err |-> "nil"]

(***************************************************************************)
(* The result of the last call (sequential specifications).                *)
(***************************************************************************)
NoRet ==
  [op |-> "none", arg |-> ZeroWorkspace, id |-> "", now |-> 0, err |-> "nil",
   wsNil |-> TRUE, ws |-> ZeroWorkspace, ok |-> FALSE, count |-> 0,
   listNil |-> TRUE, list |-> <<>>, issued |-> <<>>]

(* UpsertWorkspaceSignupToken *)
SignupTokenSuffixMySQLOnly(db) == IF db = mysqlDBType THEN OnDuplicateKey ELSE ""

SignupTokenSuffix(db) == IF db = mysqlDBType THEN OnDuplicateKey ELSE OnConflict

SignupTokenQueryKeepToken(db, workspace, now) ==
  [row |-> Row(workspace.ID, workspace.SignupToken, SQLNull, workspace.ModifiedBy, now),
   suffix |-> SignupTokenSuffix(db),
   set |-> {"modified_by", "update_at"}]

SignupTokenQueryPlainInsert(db, workspace, now) ==
  [row |-> Row(workspace.ID, workspace.SignupToken, SQLNull, workspace.ModifiedBy, now),
   suffix |-> "",
   set |-> {}]

SignupTokenQuery(db, workspace, now) ==
  [row |-> Row(workspace.ID, workspace.SignupToken, SQLNull, workspace.ModifiedBy, now),
   suffix |-> SignupTokenSuffix(db),
   set |-> {"signup_token", "modified_by", "update_at"}]

UpsertWorkspaceSignupToken(workspace) ==
  LET now == clock
      q == SignupTokenQuery(dbType, workspace, now)
      r == Exec(dbType, workspaces, q)
  IN /\ workspaces' = r.table
     /\ ret' = [NoRet EXCEPT !.op = "UpsertWorkspaceSignupToken", !.arg = workspace,
                             !.id = workspace.ID, !.now = now, !.err = r.err,
                             !.issued = <<q.suffix>>]
     /\ UNCHANGED <<dbType, clock, ChannelMembers, focalboard_blocks, pc, args, rets>>

(* UpsertWorkspaceSettings *)
SettingsSetWithToken == {"signup_token", "settings", "modified_by", "update_at"}

SettingsSetNoSettings == {"modified_by", "update_at"}

SettingsSet == {"settings", "modified_by", "update_at"}

SettingsQuery(db, workspace, signupToken, settingsJSON, now) ==
  [row |-> Row(workspace.ID, signupToken, SQLText(settingsJSON), workspace.ModifiedBy, now),
   suffix |-> IF db = mysqlDBType THEN OnDuplicateKey ELSE OnConflict,
   set |-> SettingsSet]

UpsertWorkspaceSettings(workspace) ==
  \E signupToken \in GUIDs :
    LET now == clock
        settingsJSON == Marshal(workspace.Settings)
        q == SettingsQuery(dbType, workspace, signupToken, settingsJSON, now)
        r == Exec(dbType, workspaces, q)
    IN /\ workspaces' = r.table
       /\ ret' = [NoRet EXCEPT !.op = "UpsertWorkspaceSettings", !.arg = workspace,
                               !.id = workspace.ID, !.now = now, !.err = r.err,
                               !.issued = <<q.suffix>>]
       /\ UNCHANGED <<dbType, clock, ChannelMembers, focalboard_blocks, pc, args, rets>>

(* GetWorkspace *)
SelectSettingsRaw(r) == r.settings.text

SelectSettings(r) == IF r.settings.null THEN <<Tok("{"), Tok("}")>> ELSE r.settings.text

ScanNoRowsPartial(id) == [wsNil |-> FALSE, ws |-> ZeroWorkspace, err |-> ErrNoRows]

ScanNoRows(id) == [wsNil |-> TRUE, ws |-> ZeroWorkspace, err |-> ErrNoRows]

GetWorkspaceResult(table, id) ==
  LET rows == {r \in table : r.id = id} IN
    IF rows = {} THEN ScanNoRows(id)
    ELSE LET r == CHOOSE r \in rows : TRUE
             u == Unmarshal(SelectSettings(r))
         IN IF u.err # "nil" THEN [wsNil |-> TRUE, ws |-> ZeroWorkspace, err |-> u.err]
            ELSE [wsNil |-> FALSE,
                  ws |-> Workspace(r.id, r.signup_token, u.v, r.modified_by, r.update_at),
                  err |-> "nil"]

GetWorkspace(id) ==
  LET g == GetWorkspaceResult(workspaces, id) IN
    /\ ret' = [NoRet EXCEPT !.op = "GetWorkspace", !.id = id, !.err = g.err,
                            !.wsNil = g.wsNil, !.ws = g.ws, !.issued = <<"SELECT">>]
    /\ UNCHANGED <<dbType, clock, workspaces, ChannelMembers, focalboard_blocks, pc, args, rets>>

(* HasWorkspaceAccess *)
HasWorkspaceAccess(userID, workspaceID) ==
  /\ ret' = [NoRet EXCEPT !.op = "HasWorkspaceAccess", !.id = workspaceID, !.ok = TRUE]
  /\ UNCHANGED <<dbType, clock, workspaces, ChannelMembers, focalboard_blocks, pc, args, rets>>

(* GetWorkspaceCount *)
CountSettings(table) == Cardinality({r \in table : ~r.settings.null})

CountRows(table) == Cardinality(table)

GetWorkspaceCount ==
  /\ ret' = [NoRet EXCEPT !.op = "GetWorkspaceCount", !.count = CountRows(workspaces),
                          !.issued = <<"SELECT">>]
  /\ UNCHANGED <<dbType, clock, workspaces, ChannelMembers, focalboard_blocks, pc, args, rets>>

(***************************************************************************)
(* GetUserWorkspaces.  The non-template filter is the SQL fragment spliced *)
(* into the LEFT JOIN condition: a column expression, an operator and its  *)
(* right operand, which is either a quoted literal or bare text.           *)
(***************************************************************************)
Block(id, workspaceID, type, isTemplate) ==
  [id |-> id, workspace_id |-> workspaceID, type |-> type, fields |-> [isTemplate |-> isTemplate]]

nonTemplateFilterNoDefault(db) ==
  IF db = mysqlDBType
  THEN [supported |-> TRUE, column |-> "focalboard_blocks.fields", op |-> "LIKE",
        quoted |-> FALSE, operand |-> "%\"isTemplate\":false%"]
  ELSE [supported |-> TRUE, column |-> "focalboard_blocks.fields ->> 'isTemplate'", op |-> "=",
        quoted |-> TRUE, operand |-> "false"]

nonTemplateFilter(db) ==
  CASE db = mysqlDBType ->
         [supported |-> TRUE, column |-> "focalboard_blocks.fields", op |-> "LIKE",
          quoted |-> FALSE, operand |-> "%\"isTemplate\":false%"]
    [] db = postgresDBType ->
         [supported |-> TRUE, column |-> "focalboard_blocks.fields ->> 'isTemplate'", op |-> "=",
          quoted |-> TRUE, operand |-> "false"]
    [] OTHER ->
         [supported |-> FALSE, column |-> "", op |-> "", quoted |-> FALSE, operand |-> ""]

(* The engine parses the statement: the operand of LIKE or = must be an expression, *)
(* and bare text starting with % is not one.                                        *)
FilterParses(f) == f.quoted

(* The engine evaluates the filter on one block: the serialized fields contain *)
(* "isTemplate":false, or the JSON path isTemplate yields the text false.      *)
FilterMatches(f, b) ==
  CASE f.op = "LIKE" -> b.fields.isTemplate = "false"
    [] f.op = "=" -> b.fields.isTemplate = "false"
    [] OTHER -> TRUE

(* The grouped join: one row <<Channels.ID, Channels.DisplayName, COUNT(focalboard_blocks.id)>> *)
(* per channel of the user.                                                                   *)
UserWorkspacesQuery(members, blocks, userID, f) ==
  {<<c.Id, c.DisplayName,
     Cardinality({b \in blocks : /\ b.workspace_id = c.Id
                                 /\ b.type = "board"
                                 /\ FilterMatches(f, b)})>> :
     c \in {ch \in Channels : \E cm \in members : cm.UserId = userID /\ cm.ChannelId = ch.Id}}

(* Without ORDER BY the engine returns the groups in any order. *)
Orderings(S) ==
  {q \in [1 .. Cardinality(S) -> S] : \A i, j \in 1 .. Cardinality(S) : i # j => q[i] # q[j]}

userWorkspacesFromRows(rows) ==
  [i \in DOMAIN rows |-> [ID |-> rows[i][1], Title |-> rows[i][2], BoardCount |-> rows[i][3]]]

WrapError(prefix, e) == prefix \o " - " \o e

GetUserWorkspaces(userID) ==
  LET f == nonTemplateFilter(dbType)
      base == [NoRet EXCEPT !.op = "GetUserWorkspaces", !.id = userID]
  IN /\ IF ~f.supported
        THEN ret' = [base EXCEPT !.err = WrapError("GetUserWorkspaces", errUnsupportedDatabaseError)]
        ELSE IF ~FilterParses(f)
        THEN ret' = [base EXCEPT !.err = ErrSyntax, !.issued = <<"SELECT">>]
        ELSE \E rows \in Orderings(UserWorkspacesQuery(ChannelMembers, focalboard_blocks, userID, f)) :
               ret' = [base EXCEPT !.listNil = FALSE, !.list = userWorkspacesFromRows(rows),
                                   !.issued = <<"SELECT">>]
     /\ UNCHANGED <<dbType, clock, workspaces, ChannelMembers, focalboard_blocks, pc, args, rets>>

(* time.Now().Unix() advances between calls. *)
Tick ==
  /\ clock < MaxTime
  /\ clock' = clock + 1
  /\ UNCHANGED <<dbType, workspaces, ChannelMembers, focalboard_blocks, ret, pc, args, rets>>

(***************************************************************************)
(* Concurrent callers of UpsertWorkspaceSignupToken: a caller reads the    *)
(* clock and builds the query, then the statement executes atomically in   *)
(* the engine.                                                             *)
(***************************************************************************)
BeginUpsertWorkspaceSignupToken(p, workspace) ==
  /\ pc[p] = "idle"
  /\ pc' = [pc EXCEPT ![p] = "exec"]
  /\ args' = [args EXCEPT ![p] = [workspace |-> workspace, now |-> clock]]
  /\ UNCHANGED <<dbType, clock, workspaces, ChannelMembers, focalboard_blocks, ret, rets>>

ExecUpsertWorkspaceSignupToken(p) ==
  /\ pc[p] = "exec"
  /\ LET r == Exec(dbType, workspaces, SignupTokenQuery(dbType, args[p].workspace, args[p].now))
     IN /\ workspaces' = r.table
        /\ rets' = [rets EXCEPT ![p] = r.err]
  /\ pc' = [pc EXCEPT ![p] = "done"]
  /\ UNCHANGED <<dbType, clock, ChannelMembers, focalboard_blocks, ret, args>>

(***************************************************************************)
(* Inputs and specifications.                                              *)
(***************************************************************************)
TokenInputs == {Workspace(id, t, GoNil, m, 0) : id \in Ids, t \in Tokens, m \in Modifiers}

SmallSettings == {EmptyObject, GoMap([a |-> GoInt(0, 1)])}

SettingsInputs == {Workspace(id, "", s, m, 0) : id \in Ids, s \in SmallSettings, m \in Modifiers}

Scalars == {GoNil, GoBool(TRUE), GoStr("<"), GoInt(0, 1), GoInt(2^26, 1)}

ObjectsOver(K, V) == UNION {[D -> V] : D \in SUBSET K}

NestedObjects == {GoMap(n) : n \in ObjectsOver({"a"}, Scalars)}

RichSettings == {GoNil} \cup {GoMap(m) : m \in ObjectsOver(Keys, Scalars \cup NestedObjects)}

RichSettingsInputs == {Workspace("w1", "", s, "u1", 0) : s \in RichSettings}

ConcInputs == {Workspace(id, t, GoNil, "u1", 0) : id \in Ids, t \in Tokens}

BlockChoices ==
  {Block(0, c, "board", t) : c \in ChannelIds, t \in {"false", "true"}}
    \cup {Block(0, c, "card", "false") : c \in ChannelIds}

InitStore ==
  /\ dbType \in DBTypes
  /\ clock = 0
  /\ workspaces = {}
  /\ ret = NoRet
  /\ pc = [p \in Procs |-> "idle"]
  /\ args = [p \in Procs |-> [workspace |-> ZeroWorkspace, now |-> 0]]
  /\ rets = [p \in Procs |-> "pending"]

Init ==
  /\ InitStore
  /\ ChannelMembers = {[UserId |-> "u1", ChannelId |-> "c1"], [UserId |-> "u1", ChannelId |-> "c2"]}
  /\ focalboard_blocks = {Block(1, "c1", "board", "false"), Block(2, "c1", "board", "false"),
                          Block(3, "c1", "board", "true")}

Next ==
  \/ Tick
  \/ \E workspace \in TokenInputs : UpsertWorkspaceSignupToken(workspace)
  \/ \E workspace \in SettingsInputs : UpsertWorkspaceSettings(workspace)
  \/ \E id \in Ids : GetWorkspace(id)
  \/ \E userID \in Users, id \in Ids : HasWorkspaceAccess(userID, id)
  \/ GetWorkspaceCount
  \/ \E userID \in Users : GetUserWorkspaces(userID)

Spec == Init /\ [][Next]_vars

NextJSON ==
  \/ \E workspace \in RichSettingsInputs : UpsertWorkspaceSettings(workspace)
  \/ \E id \in {"w1"} : GetWorkspace(id)

SpecJSON == Init /\ [][NextJSON]_vars

NextConc ==
  \/ Tick
  \/ \E p \in Procs, workspace \in ConcInputs : BeginUpsertWorkspaceSignupToken(p, workspace)
  \/ \E p \in Procs : ExecUpsertWorkspaceSignupToken(p)

SpecConc == Init /\ [][NextConc]_vars

InitUW ==
  /\ InitStore
  /\ ChannelMembers \in SUBSET {[UserId |-> "u1", ChannelId |-> c] : c \in ChannelIds}
  /\ \E present \in SUBSET (1 .. MaxBlocks) :
       \E choice \in [present -> BlockChoices] :
         focalboard_blocks = {[choice[i] EXCEPT !.id = i] : i \in present}

NextUW == \E userID \in Users : GetUserWorkspaces(userID)

SpecUW == InitUW /\ [][NextUW]_vars

(***************************************************************************)
(* Properties.                                                             *)
(***************************************************************************)
RowsOf(id) == {r \in workspaces : r.id = id}

UpsertOps == {"UpsertWorkspaceSignupToken", "UpsertWorkspaceSettings"}

(* C1: after a call of UpsertWorkspaceSignupToken, whatever calls came before it, the table *)
(* holds exactly one row for the identifier and the row carries the token, the modifier    *)
(* and the timestamp of that call; no identifier ever has two rows.                        *)
C1_LastWriteWins ==
  /\ \A id \in Ids : Cardinality(RowsOf(id)) <= 1
  /\ ret.op = "UpsertWorkspaceSignupToken" =>
       /\ Cardinality(RowsOf(ret.arg.ID)) = 1
       /\ \A r \in RowsOf(ret.arg.ID) :
            /\ r.signup_token = ret.arg.SignupToken
            /\ r.modified_by = ret.arg.ModifiedBy
            /\ r.update_at = ret.now

(* A token upsert that hit an existing row (the row still has settings) at a later second. *)
C1_Witness ==
  /\ ret.op = "UpsertWorkspaceSignupToken"
  /\ ret.now > 0
  /\ \E r \in RowsOf(ret.arg.ID) : ~r.settings.null /\ r.signup_token = ret.arg.SignupToken

(* C2: a call of UpsertWorkspaceSettings on an identifier that has a row keeps the row's    *)
(* signup_token and writes settings, modified_by and update_at; on an identifier without a *)
(* row it inserts a row whose token is the freshly generated one.                          *)
C2_TokenKeptOnUpdate ==
  [][(ret'.op = "UpsertWorkspaceSettings" /\ <<ret, workspaces>>' # <<ret, workspaces>>) =>
       /\ \A r \in RowsOf(ret'.arg.ID) :
            workspaces' = (workspaces \ {r}) \cup
              {Row(r.id, r.signup_token, SQLText(Marshal(ret'.arg.Settings)),
                   ret'.arg.ModifiedBy, ret'.now)}
       /\ RowsOf(ret'.arg.ID) = {} =>
            \E g \in GUIDs :
              workspaces' = workspaces \cup
                {Row(ret'.arg.ID, g, SQLText(Marshal(ret'.arg.Settings)),
                     ret'.arg.ModifiedBy, ret'.now)}]_vars

(* A settings upsert on a row that a token upsert created: the caller's token is still there. *)
C2_Witness ==
  /\ ret.op = "UpsertWorkspaceSettings"
  /\ ret.err = "nil"
  /\ \E r \in RowsOf(ret.arg.ID) : r.signup_token \in Tokens /\ ~r.settings.null

RECURSIVE ExactNumbers(_)
ExactNumbers(v) ==
  CASE v.k = "int64" -> ParseFloat(v.hi, v.lo) = <<v.hi, v.lo>>
    [] v.k = "map" -> \A key \in DOMAIN v.m : ExactNumbers(v.m[key])
    [] OTHER -> TRUE

(* C3 as stated: a successful UpsertWorkspaceSettings followed by GetWorkspace on the same *)
(* identifier returns settings semantically equal to the upserted value, for any value.    *)
C3_RoundTripAnyValue ==
  [][(/\ ret.op = "UpsertWorkspaceSettings"
      /\ ret.err = "nil"
      /\ ret'.op = "GetWorkspace"
      /\ ret'.id = ret.arg.ID) =>
       /\ ret'.err = "nil"
       /\ ~ret'.wsNil
       /\ Denote(ret'.ws.Settings) = Denote(ret.arg.Settings)]_vars

(* C3 amended: the round trip holds for every settings value whose integers are exactly *)
(* representable as float64 (magnitude up to 2^53, or even up to 2^54).                  *)
C3_RoundTripExactNumbers ==
  [][(/\ ret.op = "UpsertWorkspaceSettings"
      /\ ret.err = "nil"
      /\ ExactNumbers(ret.arg.Settings)
      /\ ret'.op = "GetWorkspace"
      /\ ret'.id = ret.arg.ID) =>
       /\ ret'.err = "nil"
       /\ ~ret'.wsNil
       /\ Denote(ret'.ws.Settings) = Denote(ret.arg.Settings)]_vars

(* GetWorkspace returned a nested object, a number and an escaped string. *)
C3_Witness ==
  /\ ret.op = "GetWorkspace"
  /\ ret.err = "nil"
  /\ ret.ws.Settings = GoMap([a |-> GoMap([a |-> GoFloat(0, 1)]), b |-> GoStr("<")])

(* C4: with concurrent UpsertWorkspaceSignupToken callers, no call returns an error, and *)
(* once a call for an identifier has returned there is exactly one row for it, carrying  *)
(* the values of one of the calls that returned.                                         *)
C4_ConcurrentUpsert ==
  /\ \A p \in Procs : rets[p] \in {"pending", "nil"}
  /\ \A id \in Ids :
       LET done == {p \in Procs : pc[p] = "done" /\ args[p].workspace.ID = id} IN
         done # {} =>
           /\ Cardinality(RowsOf(id)) = 1
           /\ \E p \in done :
                RowsOf(id) = {Row(id, args[p].workspace.SignupToken, SQLNull,
                                  args[p].workspace.ModifiedBy, args[p].now)}

(* Two callers raced on the same new identifier with different tokens, and the one that *)
(* read the clock first executed last.                                                  *)
C4_Witness ==
  /\ pc[1] = "done" /\ pc[2] = "done"
  /\ args[1].workspace.ID = args[2].workspace.ID
  /\ args[1].workspace.SignupToken # args[2].workspace.SignupToken
  /\ args[1].now < args[2].now
  /\ \E r \in RowsOf(args[1].workspace.ID) : r.update_at = args[1].now

(* C5: GetWorkspaceCount returns 0 on the empty table and otherwise the number of distinct *)
(* identifiers in the table; an upsert of a new identifier adds one identifier and an      *)
(* upsert of an existing identifier adds none.                                             *)
C5_Count ==
  /\ [](ret.op = "GetWorkspaceCount" =>
          /\ ret.count = Cardinality({r.id : r \in workspaces})
          /\ workspaces = {} => ret.count = 0)
  /\ [][(ret'.op \in UpsertOps /\ <<ret, workspaces>>' # <<ret, workspaces>>) =>
          CountRows(workspaces') =
            CountRows(workspaces) + (IF RowsOf(ret'.arg.ID) = {} THEN 1 ELSE 0)]_vars

(* The count is 1 over a row that was upserted at least twice. *)
C5_Witness ==
  /\ ret.op = "GetWorkspaceCount"
  /\ ret.count = 1
  /\ \E r \in workspaces : r.signup_token \in Tokens /\ ~r.settings.null

NonTemplateBoards(c) ==
  {b \in focalboard_blocks : b.workspace_id = c /\ b.type = "board" /\ b.fields.isTemplate = "false"}

(* C6: on MySQL and on PostgreSQL GetUserWorkspaces succeeds and returns exactly one entry *)
(* per channel of the user, whose count is the number of non-template boards of the        *)
(* channel (0 for a channel without boards).                                               *)
C6_BoardCounts ==
  (ret.op = "GetUserWorkspaces" /\ dbType \in {mysqlDBType, postgresDBType}) =>
    /\ ret.err = "nil"
    /\ ~ret.listNil
    /\ LET mine == {c \in ChannelIds : [UserId |-> ret.id, ChannelId |-> c] \in ChannelMembers} IN
         /\ Len(ret.list) = Cardinality(mine)
         /\ \A c \in mine :
              \E i \in DOMAIN ret.list :
                /\ ret.list[i].ID = c
                /\ ret.list[i].BoardCount = Cardinality(NonTemplateBoards(c))

(* C7: on a dialect other than MySQL and PostgreSQL GetUserWorkspaces returns the wrapped *)
(* unsupported-database error and a nil list, and has issued no query.                    *)
C7_UnsupportedDialect ==
  (ret.op = "GetUserWorkspaces" /\ dbType \notin {mysqlDBType, postgresDBType}) =>
    /\ ret.err = WrapError("GetUserWorkspaces", errUnsupportedDatabaseError)
    /\ ret.listNil
    /\ ret.list = <<>>
    /\ ret.issued = <<>>

(* The call was made for a user who is a member of a channel with a counted board. *)
C7_Witness ==
  /\ ret.op = "GetUserWorkspaces"
  /\ dbType = sqliteDBType
  /\ \E cm \in ChannelMembers : cm.UserId = ret.id /\ NonTemplateBoards(cm.ChannelId) # {}

(* C8: GetWorkspace on a row whose settings were never written succeeds and returns the *)
(* empty object as settings, with the row's id, token, modifier and timestamp.          *)
C8_DefaultSettings ==
  ret.op = "GetWorkspace" =>
    \A r \in RowsOf(ret.id) :
      r.settings.null =>
        /\ ret.err = "nil"
        /\ ~ret.wsNil
        /\ ret.ws = Workspace(r.id, r.signup_token, EmptyObject, r.modified_by, r.update_at)

(* GetWorkspace read a row that token upserts created and updated. *)
C8_Witness ==
  /\ ret.op = "GetWorkspace"
  /\ \E r \in RowsOf(ret.id) : r.settings.null /\ r.update_at > 0
  /\ ret.ws.Settings = EmptyObject

(* C9: GetWorkspace on an identifier without a row returns the no-rows error and a nil *)
(* workspace, and GetWorkspace never changes the table.                                *)
C9_NotFound ==
  /\ [](ret.op = "GetWorkspace" /\ RowsOf(ret.id) = {} =>
          /\ ret.err = ErrNoRows
          /\ ret.wsNil
          /\ ret.ws = ZeroWorkspace)
  /\ [][ret'.op = "GetWorkspace" /\ ret' # ret => workspaces' = workspaces]_vars

(* The lookup missed while the table held a row for another identifier. *)
C9_Witness ==
  /\ ret.op = "GetWorkspace"
  /\ RowsOf(ret.id) = {}
  /\ workspaces # {}
  /\ ret.err = ErrNoRows

DialectOps == UpsertOps \cup {"GetUserWorkspaces"}

(* C10 as stated: on a dialect other than MySQL and PostgreSQL each of the three operations *)
(* with dialect-specific SQL fails with an error and issues no statement.                   *)
C10_AllFailFast ==
  (ret.op \in DialectOps /\ dbType \notin {mysqlDBType, postgresDBType}) =>
    /\ ret.err # "nil"
    /\ ret.issued = <<>>

(* C10 amended: all three operations branch on the dialect, but only GetUserWorkspaces     *)
(* fails fast without a statement on a dialect other than MySQL and PostgreSQL; the two    *)
(* upserts issue the ON DUPLICATE KEY UPDATE form on MySQL and the ON CONFLICT form on     *)
(* every other dialect.                                                                    *)
C10_BranchOnDialect ==
  /\ ret.op \in UpsertOps =>
       ret.issued = <<IF dbType = mysqlDBType THEN OnDuplicateKey ELSE OnConflict>>
  /\ (ret.op = "GetUserWorkspaces" /\ dbType \notin {mysqlDBType, postgresDBType}) =>
       ret.err # "nil" /\ ret.issued = <<>>
  /\ (ret.op = "GetUserWorkspaces" /\ dbType \in {mysqlDBType, postgresDBType}) =>
       ret.issued = <<"SELECT">>

(* An upsert on the third dialect issued the ON CONFLICT statement and succeeded. *)
C10_Witness ==
  /\ dbType = sqliteDBType
  /\ ret.op = "UpsertWorkspaceSignupToken"
  /\ ret.issued = <<OnConflict>>
  /\ ret.err = "nil"
  /\ RowsOf(ret.arg.ID) # {}
====
